---- MODULE Spec2Model ----
(***************************************************************************)
(* State-machine model of the scan session controller of scan_tui.py       *)
(* (class ScanTUI): the scan lock and the single queue slot of             *)
(* action_scan, the scan cycle of _run_scan, the session statistics, the   *)
(* history log, the stage, and the widgets the cycle reads.                *)
(*                                                                         *)
(* Handlers are asyncio coroutines.  A handler runs without interruption   *)
(* up to an await that really suspends; the only such awaits are the two   *)
(* asyncio.to_thread(subprocess.run, ...) calls.  Every action below is    *)
(* therefore one handler, or the part of a handler between two of those    *)
(* awaits.  Strings that the code takes apart (the prefix, file names) are *)
(* sequences of one-character strings.                                     *)
(***************************************************************************)
EXTENDS Integers, Sequences, FiniteSets, TLC

(* ----------------------------- bounds --------------------------------- *)

\* scan cycles (calls of _run_scan) made over a whole behaviour
MaxCycles == 2
\* concurrent invocations of action_scan the model has room for
NumTasks == 2
\* the largest index looked for in the name of a file
MaxIndex == 40
\* the longest prefix typed, in characters
MaxLen == 3

Tasks == 1..NumTasks

(* ------------------------- values and inputs -------------------------- *)

\* Python's None, and Select.BLANK of the device select
None == "<None>"
BLANK == "<BLANK>"

Devices == {"dev1"}
\* what `scanimage -L` can report: the parsed device lists
ScannerLists == {<< >>, <<"dev1">>}

\* values typed into #prefix_input
PrefixInputs == { <<"s", "c", "a", "n">>, <<"*", ".">> }
\* values typed into #output_dir_input: usable, not creatable
DirInputs == {"./scans", "/proc/scans"}
UncreatableDirs == {"/proc/scans"}
\* values typed into #extra_input: none, or with an unbalanced quote
\* (shlex.split raises ValueError on it)
ExtraInputs == {"", "--x 'y"}
UnbalancedExtras == {"--x 'y"}

\* captured output of the scan program, before .strip()
OutputTexts == {"", "Error during device I/O\n"}
\* exit codes of the scan program
ReturnCodes == {0, 1}
\* st_size of the written file, as a one-element sequence (<< >> stands for
\* size_bytes = None, when stat raises), and elapsed time in tenths of a second
Sizes == {<<2048>>}
Durations == {15}
\* whether append_history completes without raising
HistoryOutcomes == {TRUE}
\* the same with the faults of the file system: stat raising, append_history
\* raising, the configuration file not writable
AllSizes == {<< >>, <<2048>>}
AllHistoryOutcomes == {TRUE, FALSE}
AllSaveOutcomes == {"saved", "writeFailed", "mkdirRaised"}
\* what _save_settings meets at the end of a scan cycle, and what it meets
\* in the handlers of the operator's edits
SaveOutcomes == {"saved", "mkdirRaised"}
EditSaveOutcomes == {"saved"}
\* a second scanner, and a second usable value for each of #prefix_input,
\* #output_dir_input and #extra_input
TwoScanners == <<"dev1", "dev2">>
OtherPrefixes == { <<"d", "o", "c">> }
OtherDirs == {"./out"}
OtherExtras == {"-l 5"}
\* values typed into #resolution_input: a preset, a negative number, no
\* number
ResolutionInputs == {"150", "-5", "abc"}

(* ------------------------- module constants --------------------------- *)

FORMAT_OPTIONS == <<"png", "jpeg", "tiff", "pdf", "pnm">>
RESOLUTION_PRESETS == <<150, 300, 600>>

(* ------------------------- pure functions ----------------------------- *)

Whitespace == {" ", "\t", "\n"}
AllowedChars == {"a", "b", "c", "d", "n", "o", "s", "A", "0", "1", ".", "_", "-"}
TrimChars == {".", "_", "-"}

RECURSIVE LStrip(_, _)
LStrip(s, set) ==
    IF s # << >> /\ Head(s) \in set THEN LStrip(Tail(s), set) ELSE s

RECURSIVE RStrip(_, _)
RStrip(s, set) ==
    IF s # << >> /\ s[Len(s)] \in set
    THEN RStrip(SubSeq(s, 1, Len(s) - 1), set) ELSE s

\* str.strip(chars)
Strip(s, set) == RStrip(LStrip(s, set), set)

\* str.replace(old, new) for one-character old and new
Replace(s, old, new) == [i \in 1..Len(s) |-> IF s[i] = old THEN new ELSE s[i]]

\* re.sub(r"[^A-Za-z0-9._-]+", "_", s): each maximal run becomes one "_"
RECURSIVE SubDisallowed(_)
SubDisallowed(s) ==
    IF s = << >> THEN << >>
    ELSE IF Head(s) \in AllowedChars THEN <<Head(s)>> \o SubDisallowed(Tail(s))
    ELSE <<"_">> \o SubDisallowed(LStrip(s, {c \in {s[i] : i \in 1..Len(s)} : c \notin AllowedChars}))

\* a faulty sanitize_prefix: the ends are trimmed before the disallowed
\* characters are replaced
sanitize_prefix_trim_first(value) ==
    LET c1 == Replace(Strip(value, Whitespace), " ", "_")
        c2 == Replace(Replace(c1, "/", "_"), "\\", "_")
        c3 == Strip(c2, TrimChars)
    IN  SubDisallowed(c3)

sanitize_prefix(value) ==
    LET c1 == Replace(Strip(value, Whitespace), " ", "_")
        c2 == Replace(Replace(c1, "/", "_"), "\\", "_")
        c3 == SubDisallowed(c2)
    IN  Strip(c3, TrimChars)

\* str.strip() of a captured output text
StripText(t) ==
    CASE t = "Error during device I/O\n" -> "Error during device I/O"
      [] t = " " -> ""
      [] OTHER -> t

\* str.lower() of one character
LowerChar(c) == IF c = "A" THEN "a" ELSE c
Lower(s) == [i \in 1..Len(s) |-> LowerChar(s[i])]

Chars(str) ==
    CASE str = "png"  -> <<"p", "n", "g">>
      [] str = "jpg"  -> <<"j", "p", "g">>
      [] str = "tiff" -> <<"t", "i", "f", "f">>
      [] str = "pdf"  -> <<"p", "d", "f">>
      [] str = "pnm"  -> <<"p", "n", "m">>

DigitChars == <<"0", "1", "2", "3", "4", "5", "6", "7", "8", "9">>
IsDigit(c) == \E d \in 1..10 : DigitChars[d] = c
DigitValue(c) == (CHOOSE d \in 1..10 : DigitChars[d] = c) - 1

RECURSIVE Decimal(_)
Decimal(n) ==
    IF n < 10 THEN <<DigitChars[n + 1]>>
    ELSE Decimal(n \div 10) \o <<DigitChars[(n % 10) + 1]>>

RECURSIVE ZeroPad(_, _)
ZeroPad(s, width) == IF Len(s) >= width THEN s ELSE ZeroPad(<<"0">> \o s, width)

\* f"{index:04d}"
Format04d(index) == ZeroPad(Decimal(index), 4)

\* f"{prefix}_{index:04d}.{ext}"
FileName(prefix, index, ext) ==
    prefix \o <<"_">> \o Format04d(index) \o <<".">> \o Chars(ext)

\* int(match.group(1)) of four digit characters
RECURSIVE IntOf(_)
IntOf(s) ==
    IF s = << >> THEN 0 ELSE 10 * IntOf(SubSeq(s, 1, Len(s) - 1)) + DigitValue(s[Len(s)])

\* pattern.match(name) for ^{prefix}_(\d{4}).*\.{ext}$ with re.IGNORECASE
PatternMatches(prefix, ext, name) ==
    LET head == Lower(prefix) \o <<"_">>
        tail == <<".">> \o Chars(ext)
        n == Lower(name)
    IN  /\ Len(n) >= Len(head) + 4 + Len(tail)
        /\ SubSeq(n, 1, Len(head)) = head
        /\ \A i \in 1..4 : IsDigit(n[Len(head) + i])
        /\ SubSeq(n, Len(n) - Len(tail) + 1, Len(n)) = tail

MatchedIndex(prefix, name) ==
    IntOf(SubSeq(name, Len(prefix) + 2, Len(prefix) + 5))

SetMax(S) == CHOOSE x \in S : \A y \in S : y <= x

\* a faulty next_index: every entry of the directory counts, regular file or
\* not
next_index_any_entry(prefix, output_dir, ext, dirs, files) ==
    IF output_dir \notin dirs THEN 1
    ELSE LET matched == {MatchedIndex(prefix, f.name) :
                            f \in {g \in files : /\ g.dir = output_dir
                                                 /\ PatternMatches(prefix, ext, g.name)}}
         IN  SetMax(matched \cup {0}) + 1

\* next_index(prefix, output_dir, ext) over the file system: dirs are the
\* directories that exist, files the entries [dir, name, isfile] in them
next_index(prefix, output_dir, ext, dirs, files) ==
    IF output_dir \notin dirs THEN 1
    ELSE LET matched == {MatchedIndex(prefix, f.name) :
                            f \in {g \in files : /\ g.dir = output_dir
                                                 /\ g.isfile
                                                 /\ PatternMatches(prefix, ext, g.name)}}
         IN  SetMax(matched \cup {0}) + 1

\* safe_int(value, default): int(value), default on ValueError
safe_int(value, default) ==
    CASE value = "300" -> 300
      [] value = "150" -> 150
      [] value = "600" -> 600
      [] value = "0" -> 0
      [] value = "-5" -> -5
      [] OTHER -> default

\* an entry of the directory ./scans
Entry(name, isfile) == [dir |-> "./scans", name |-> name, isfile |-> isfile]

\* what a session can find in ./scans when it starts: the directory missing;
\* empty; the files scan_0001.png .. scan_0037.png; only entries that are
\* not scans of the prefix "scan" in png (another extension, another prefix,
\* a directory, three digits); those with scAn_0003.png among them; and
\* scan_0001.png with scan_0002-a.png
Listings ==
    LET scan == <<"s", "c", "a", "n">>
        others == { Entry(FileName(scan, 9, "pdf"), TRUE),
                    Entry(FileName(<<"d", "o", "c">>, 7, "png"), TRUE),
                    Entry(FileName(scan, 8, "png"), FALSE),
                    Entry(<<"s", "c", "a", "n", "_", "0", "0", "1", ".", "p", "n", "g">>, TRUE) }
    IN  { [dirs |-> {}, files |-> {}],
          [dirs |-> {"./scans"}, files |-> {}],
          [dirs |-> {"./scans"},
           files |-> {Entry(FileName(scan, i, "png"), TRUE) : i \in 1..37}],
          [dirs |-> {"./scans"}, files |-> others],
          [dirs |-> {"./scans"},
           files |-> others \cup
               {Entry(<<"s", "c", "A", "n", "_", "0", "0", "0", "3", ".", "p", "n", "g">>, TRUE)}],
          [dirs |-> {"./scans"},
           files |-> { Entry(FileName(scan, 1, "png"), TRUE),
                       Entry(<<"s", "c", "a", "n", "_", "0", "0", "0", "2", "-", "a",
                               ".", "p", "n", "g">>, TRUE) }] }

\* ./scans after 9999 scans of the prefix "scan" in png, the last of them
\* left, and after 10000, the last two left
LargeListings ==
    LET scan == <<"s", "c", "a", "n">>
    IN  { [dirs |-> {"./scans"}, files |-> {Entry(FileName(scan, 9999, "png"), TRUE)}],
          [dirs |-> {"./scans"},
           files |-> {Entry(FileName(scan, 9999, "png"), TRUE),
                      Entry(FileName(scan, 10000, "png"), TRUE)}] }

\* every text of up to MaxLen characters out of a blank, a tab, the two path
\* separators, a character that is not allowed, two of the characters
\* trimmed from the ends, and a letter
PrefixChars == {" ", "\t", "/", "\\", "*", ".", "-", "a"}
PrefixTexts == UNION {[1..k -> PrefixChars] : k \in 0..MaxLen}

(* ------------------------------ state --------------------------------- *)

VARIABLES
    _stage,                  \* "select" or "scan"
    _scan_lock,              \* asyncio.Lock: TRUE while locked
    _scan_queued,
    _last_error,
    _session_scans,
    _session_bytes,
    _session_total_seconds,
    _scanners,               \* devices of the last successful listing
    _auto_continue_single,
    _advanced,               \* whether the advanced panel is shown
    _settings,               \* the record _load_settings returned at start
    scanner_select,          \* value of #scanner_select: a device or BLANK
    prefix_input,
    output_dir_input,
    format_select,
    resolution_input,
    mode_select,
    source_select,
    extra_input,
    scan_notice,             \* the last notice action_scan wrote to the log
    next_file,               \* #next_file: << >> for "-", else <<[dir, name]>>
    select_status,           \* text of the #select_status label
    history,                 \* records appended to HISTORY_PATH
    config,                  \* CONFIG_PATH: << >> while absent, else <<record>>
    dirs,                    \* directories that exist
    files,                   \* directory entries: [dir, name, isfile]
    pc,                      \* per action_scan invocation: "idle" or "exec"
    job,                     \* per invocation: the command handed to subprocess.run
    raised,                  \* exception that left a handler uncaught, or None
    cycles,                  \* calls of _run_scan made so far
    since_reset              \* scans completed since the last action_reset_count

widgets == <<scanner_select, prefix_input, output_dir_input, format_select,
             resolution_input, mode_select, source_select, extra_input>>
stats == <<_session_scans, _session_bytes, _session_total_seconds>>
fs == <<dirs, files>>
vars == <<_stage, _scan_lock, _scan_queued, _last_error, stats, _scanners,
          _auto_continue_single, _advanced, _settings, widgets, scan_notice, select_status,
          next_file, history, config, fs, pc, job, raised, cycles, since_reset>>

NoJob == [device |-> None]

\* what settings.get(key, default) yields in __init__ and in
\* _apply_scan_settings when _load_settings has returned {}
DefaultSettings ==
    [prefix |-> <<"s", "c", "a", "n">>, output_dir |-> "./scans",
     auto_continue_single |-> TRUE, advanced |-> FALSE, last_device |-> None]

\* the state after on_mount, with the directories d and the entries fl on
\* the disk and the settings st taken from the loaded record; nf and cfg are
\* #next_file and the configuration file once the Changed events of
\* _apply_scan_settings have been handled, err is what __init__ raised
InitState(d, fl, st, nf, cfg, err) ==
    /\ _stage = "select"
    /\ _scan_lock = FALSE
    /\ _scan_queued = FALSE
    /\ _last_error = None
    /\ _session_scans = 0
    /\ _session_bytes = 0
    /\ _session_total_seconds = 0
    /\ _scanners = << >>
    /\ _auto_continue_single = st.auto_continue_single
    /\ _advanced = st.advanced
    /\ _settings = [last_device |-> st.last_device]
    /\ scanner_select = BLANK
    /\ prefix_input = st.prefix
    /\ output_dir_input = st.output_dir
    /\ format_select = "png"
    /\ resolution_input = "300"
    /\ mode_select = "Color"
    /\ source_select = "Flatbed"
    /\ extra_input = ""
    /\ scan_notice = ""
    /\ next_file = nf
    /\ select_status = "Select a scanner to continue."
    /\ history = << >>
    /\ config = cfg
    /\ dirs = d
    /\ files = fl
    /\ pc = [t \in Tasks |-> "idle"]
    /\ job = [t \in Tasks |-> NoJob]
    /\ raised = err
    /\ cycles = 0
    /\ since_reset = 0

\* the state after on_mount without a configuration file, with the
\* directories d and the entries fl on the disk
InitOn(d, fl) == InitState(d, fl, DefaultSettings, << >>, << >>, None)

Init == InitOn({}, {})

(* --------------------------- helpers of ScanTUI ----------------------- *)

\* active_device() for a value of #scanner_select: None when empty or blank
DeviceOf(value) == IF value \in {BLANK, ""} THEN None ELSE value
active_device == DeviceOf(scanner_select)

\* the record _save_settings writes, for the given values of #scanner_select,
\* #prefix_input, #output_dir_input and #extra_input
SettingsData(select, prefix, output_dir, extra) ==
    [prefix |-> Strip(prefix, Whitespace), output_dir |-> StripText(output_dir),
     format |-> format_select, resolution |-> StripText(resolution_input),
     mode |-> mode_select, source |-> source_select, extra |-> StripText(extra),
     last_device |-> DeviceOf(select), auto_continue_single |-> _auto_continue_single,
     advanced |-> _advanced]

\* CONFIG_PATH after _save_settings() with that record.  save: "saved", or
\* "writeFailed" when opening or writing the file raises (caught)
ConfigAfterSave(save, before, data) == IF save = "saved" THEN <<data>> ELSE before

\* _output_dir_path(): None when the stripped input is empty
_output_dir_path ==
    IF StripText(output_dir_input) = "" THEN None ELSE StripText(output_dir_input)

\* what _update_next_filename puts into #next_file for the given values of
\* #prefix_input and #output_dir_input, on the directories d and entries fl
NextFileText(prefix_raw, dir_input, d, fl) ==
    LET prefix == sanitize_prefix(prefix_raw)
        output_dir == IF StripText(dir_input) = "" THEN "./scans" ELSE StripText(dir_input)
        ext == IF format_select = "jpeg" THEN "jpg" ELSE format_select
    IN  IF prefix = << >> THEN << >>
        ELSE <<[dir |-> output_dir,
                name |-> FileName(prefix, next_index(prefix, output_dir, ext, d, fl), ext)]>>

\* a faulty RunScanBuild: the extra options are parsed before anything else
\* is looked at
RunScanBuildExtraFirst(fl) ==
    LET device == active_device
        prefix == sanitize_prefix(prefix_input)
        output_dir == _output_dir_path
        mkdirOk == output_dir # None /\ output_dir \notin UncreatableDirs
        newDirs == IF prefix # << >> /\ mkdirOk THEN dirs \cup {output_dir} ELSE dirs
        fmt == format_select
        ext == IF fmt = "jpeg" THEN "jpg" ELSE fmt
        resolution == safe_int(StripText(resolution_input), 300)
        extra == StripText(extra_input)
        index == next_index(prefix, output_dir, ext, newDirs, fl)
        failure(msg, p, d) ==
            [res |-> "fail", error |-> msg, prefix |-> p, dirs |-> d, job |-> NoJob]
    IN  IF extra \in UnbalancedExtras
        THEN failure("Extra options parse error", prefix_input, dirs)
        ELSE IF device = None THEN failure("No scanner selected", prefix_input, dirs)
        ELSE IF prefix = << >> THEN failure("Prefix empty", prefix, dirs)
        ELSE IF ~mkdirOk THEN failure("Output directory error", prefix, dirs)
        ELSE [res |-> "exec", error |-> None, prefix |-> prefix, dirs |-> newDirs,
              job |-> [device |-> device, format |-> fmt,
                       file |-> [dir |-> output_dir, name |-> FileName(prefix, index, ext)],
                       resolution |-> resolution, mode |-> mode_select,
                       source |-> source_select, extra |-> extra]]

\* the synchronous part of _run_scan, from its first line to the call of
\* asyncio.to_thread, on the files `fl`: what it returns or hands over, and
\* what it has written on the way
RunScanBuild(fl) ==
    LET device == active_device
        prefix == sanitize_prefix(prefix_input)
        output_dir == _output_dir_path
        mkdirOk == output_dir # None /\ output_dir \notin UncreatableDirs
        newDirs == IF prefix # << >> /\ mkdirOk THEN dirs \cup {output_dir} ELSE dirs
        fmt == format_select
        ext == IF fmt = "jpeg" THEN "jpg" ELSE fmt
        resolution == safe_int(StripText(resolution_input), 300)
        extra == StripText(extra_input)
        index == next_index(prefix, output_dir, ext, newDirs, fl)
        failure(msg, p, d) ==
            [res |-> "fail", error |-> msg, prefix |-> p, dirs |-> d, job |-> NoJob]
    IN  IF device = None THEN failure("No scanner selected", prefix_input, dirs)
        ELSE IF prefix = << >> THEN failure("Prefix empty", prefix, dirs)
        ELSE IF ~mkdirOk THEN failure("Output directory error", prefix, dirs)
        ELSE IF extra \in UnbalancedExtras
             THEN failure("Extra options parse error", prefix, newDirs)
        ELSE [res |-> "exec", error |-> None, prefix |-> prefix, dirs |-> newDirs,
              job |-> [device |-> device, format |-> fmt,
                       file |-> [dir |-> output_dir, name |-> FileName(prefix, index, ext)],
                       resolution |-> resolution, mode |-> mode_select,
                       source |-> source_select, extra |-> extra]]

(* ------------------------------ action_scan --------------------------- *)

\* an exception that leaves a handler ends the session: no handler runs after it
Running == raised = None

InFlight == {t \in Tasks : pc[t] = "exec"}
FreeTask(t) == pc[t] = "idle" /\ \A u \in Tasks : pc[u] = "idle" => t <= u

\* a faulty Locked: the lock is never seen as held
LockedNever == FALSE

\* self._scan_lock.locked()
Locked == _scan_lock

\* a faulty ScanAccepted: the stage is not looked at
ScanAcceptedAnyStage(focusedInput) == ~focusedInput

\* the two early returns of action_scan do not apply
ScanAccepted(focusedInput) == _stage = "scan" /\ ~focusedInput

\* a faulty QueuedContinues: the result of the cycle is not looked at
QueuedContinuesAnyResult(ok) == _scan_queued

\* the condition of the loop of action_scan to run the queued cycle
QueuedContinues(ok) == _scan_queued /\ ok

\* action_scan returning early: wrong stage, or an Input has the focus
ScanIgnored(focusedInput) ==
    /\ Running
    /\ ~ScanAccepted(focusedInput)
    /\ UNCHANGED vars

\* action_scan while the lock is held and nothing is queued
ScanQueue(focusedInput) ==
    /\ Running
    /\ ScanAccepted(focusedInput)
    /\ Locked
    /\ ~_scan_queued
    /\ cycles < MaxCycles
    /\ _scan_queued' = TRUE
    /\ scan_notice' = "Queued one scan."
    /\ UNCHANGED <<next_file, _stage, _scan_lock, _last_error, stats, _scanners,
                   _auto_continue_single, _advanced, _settings, widgets, select_status,
                   history, config, fs, pc, job, raised, cycles, since_reset>>

\* a faulty ScanAlreadyQueued: the further request empties the queue slot
ScanAlreadyQueuedToggles(focusedInput) ==
    /\ Running
    /\ ScanAccepted(focusedInput)
    /\ Locked
    /\ _scan_queued
    /\ _scan_queued' = FALSE
    /\ scan_notice' = "Scan already queued."
    /\ UNCHANGED <<next_file, _stage, _scan_lock, _last_error, stats, _scanners,
                   _auto_continue_single, _advanced, _settings, widgets, select_status,
                   history, config, fs, pc, job, raised, cycles, since_reset>>

\* action_scan while the lock is held and a request is queued
ScanAlreadyQueued(focusedInput) ==
    /\ Running
    /\ ScanAccepted(focusedInput)
    /\ Locked
    /\ _scan_queued
    /\ scan_notice' = "Scan already queued."
    /\ UNCHANGED <<next_file, _stage, _scan_lock, _scan_queued, _last_error, stats, _scanners,
                   _auto_continue_single, _advanced, _settings, widgets, select_status,
                   history, config, fs, pc, job, raised, cycles, since_reset>>

\* _last_error once _run_scan has failed to build or has reached subprocess.run
ErrorAfterBuild(fl, before) ==
    IF RunScanBuild(fl).res = "fail" THEN RunScanBuild(fl).error ELSE before

\* one pass of the loop of action_scan in invocation t up to the next
\* suspension: _run_scan is called on the files fl and the configuration
\* file cfg (again: as the queued cycle); it either fails while building
\* (the loop ends and the lock is released) or reaches subprocess.run.  A
\* prefix written back sanitized makes on_input_changed save the settings.
EnterCycle(t, fl, again, cfg, nf) ==
    LET b == RunScanBuild(fl)
    IN  /\ cycles' = cycles + 1
        /\ prefix_input' = b.prefix
        /\ config' = IF b.prefix # prefix_input
                      THEN <<SettingsData(scanner_select, b.prefix,
                                          output_dir_input, extra_input)>>
                      ELSE cfg
        /\ next_file' = IF b.prefix # prefix_input
                         THEN NextFileText(b.prefix, output_dir_input, b.dirs, fl)
                         ELSE nf
        /\ dirs' = b.dirs
        /\ files' = fl
        /\ IF b.res = "exec"
           THEN /\ pc' = [pc EXCEPT ![t] = "exec"]
                /\ job' = [job EXCEPT ![t] = b.job]
                /\ _scan_lock' = TRUE
                /\ _scan_queued' = (_scan_queued /\ ~again)
           ELSE /\ pc' = [pc EXCEPT ![t] = "idle"]
                /\ job' = [job EXCEPT ![t] = NoJob]
                /\ _scan_lock' = FALSE
                /\ _scan_queued' = FALSE

\* action_scan with the lock free: take it and run the first cycle
ScanStart(t, focusedInput) ==
    /\ Running
    /\ ScanAccepted(focusedInput)
    /\ ~Locked
    /\ FreeTask(t)
    /\ cycles < MaxCycles
    /\ EnterCycle(t, files, FALSE, config, next_file)
    /\ _last_error' = ErrorAfterBuild(files, _last_error)
    /\ UNCHANGED <<_stage, stats, _scanners, _auto_continue_single, _advanced, _settings,
                   scanner_select, output_dir_input, format_select, resolution_input,
                   mode_select, source_select, extra_input, scan_notice,
                   select_status, history, raised, since_reset>>

action_scan(focusedInput) ==
    \/ ScanIgnored(focusedInput)
    \/ ScanQueue(focusedInput)
    \/ ScanAlreadyQueued(focusedInput)
    \/ \E t \in Tasks : ScanStart(t, focusedInput)

(* ------------------- _run_scan after subprocess.run ------------------- *)

\* a faulty LeaveLoop: the lock is not released
LeaveLoopKeepsLock(t) ==
    /\ pc' = [pc EXCEPT ![t] = "idle"]
    /\ job' = [job EXCEPT ![t] = NoJob]
    /\ _scan_lock' = TRUE
    /\ _scan_queued' = FALSE
    /\ UNCHANGED cycles

\* the end of the loop of action_scan and of its `async with`
LeaveLoop(t) ==
    /\ pc' = [pc EXCEPT ![t] = "idle"]
    /\ job' = [job EXCEPT ![t] = NoJob]
    /\ _scan_lock' = FALSE
    /\ _scan_queued' = FALSE
    /\ UNCHANGED cycles

\* an exception leaving _run_scan: it passes the loop and the `async with`
\* (which releases the lock) and leaves action_scan
Escape(t, exception) ==
    /\ pc' = [pc EXCEPT ![t] = "idle"]
    /\ job' = [job EXCEPT ![t] = NoJob]
    /\ _scan_lock' = FALSE
    /\ raised' = exception
    /\ UNCHANGED <<_scan_queued, cycles>>

\* a faulty AfterCycle: the queued cycle is built on the directory as it was
\* before the scan that has just ended wrote its file
AfterCycleOnOldFiles(t, ok, fl, errorNow, cfg, nf) ==
    IF QueuedContinues(ok)
    THEN /\ EnterCycle(t, files, TRUE, cfg, nf)
         /\ _last_error' = ErrorAfterBuild(files, errorNow)
    ELSE /\ LeaveLoop(t)
         /\ _last_error' = errorNow
         /\ files' = fl
         /\ config' = cfg
         /\ next_file' = nf
         /\ UNCHANGED <<prefix_input, dirs>>

\* the loop of action_scan once _run_scan has returned ok, with the files fl,
\* the configuration file cfg and _last_error as _run_scan left them
AfterCycle(t, ok, fl, errorNow, cfg, nf) ==
    IF QueuedContinues(ok)
    THEN /\ EnterCycle(t, fl, TRUE, cfg, nf)
         /\ _last_error' = ErrorAfterBuild(fl, errorNow)
    ELSE /\ LeaveLoop(t)
         /\ _last_error' = errorNow
         /\ files' = fl
         /\ config' = cfg
         /\ next_file' = nf
         /\ UNCHANGED <<prefix_input, dirs>>

\* the text of the "scanimage failed:" log line
FailureText(stdout, stderr) ==
    IF StripText(stderr) # "" THEN StripText(stderr)
    ELSE IF StripText(stdout) # "" THEN StripText(stdout)
    ELSE "Unknown error"

\* a faulty FailureLastError: the captured text is passed on
FailureLastErrorIsText(error) == error

\* what _run_scan passes to set_last_error when the scan program exits non-zero
FailureLastError(error) == "Scan failed"

\* subprocess.TimeoutExpired after 120 s
ExecTimeout(t) ==
    /\ Running
    /\ pc[t] = "exec"
    /\ AfterCycle(t, FALSE, files, "Scan timed out", config, next_file)
    /\ UNCHANGED <<_stage, stats, _scanners, _auto_continue_single, _advanced, _settings,
                   scanner_select, output_dir_input, format_select, resolution_input,
                   mode_select, source_select, extra_input, scan_notice,
                   select_status, history, raised, since_reset>>

\* subprocess.run could not start the program: FileNotFoundError (or another
\* OSError), which _run_scan does not catch
ExecSpawnFailed(t) ==
    /\ Running
    /\ pc[t] = "exec"
    /\ Escape(t, "FileNotFoundError")
    /\ UNCHANGED <<next_file, _stage, _last_error, stats, _scanners, _auto_continue_single,
                   _advanced, _settings, widgets, scan_notice, select_status, history,
                   config, fs, since_reset>>

\* _run_scan from `if result.returncode != 0:` to its `return False`
RunScanFailed(t, stdout, stderr) ==
    /\ pc[t] = "exec"
    /\ AfterCycle(t, FALSE, files, FailureLastError(FailureText(stdout, stderr)), config,
                  next_file)
    /\ UNCHANGED <<_stage, stats, _scanners, _auto_continue_single, _advanced, _settings,
                   scanner_select, output_dir_input, format_select, resolution_input,
                   mode_select, source_select, extra_input, scan_notice,
                   select_status, history, raised, since_reset>>

\* the record _append_history_entry builds: the file of the job, and the
\* widgets as they are when the scan has finished
HistoryRecord(t, size, duration) ==
    [file |-> job[t].file, size_bytes |-> size, duration_seconds |-> duration,
     device |-> active_device, format |-> format_select,
     resolution |-> StripText(resolution_input), mode |-> mode_select,
     source |-> source_select]

\* a faulty StatsAfterSuccess: the duration is not added
StatsAfterSuccessNoDuration(size, duration) ==
    <<_session_scans + 1,
      IF size # << >> THEN _session_bytes + size[1] ELSE _session_bytes,
      _session_total_seconds>>

\* the statistics after one more successful scan
StatsAfterSuccess(size, duration) ==
    <<_session_scans + 1,
      IF size # << >> THEN _session_bytes + size[1] ELSE _session_bytes,
      _session_total_seconds + duration>>

\* a faulty RunScanSucceeded: an exception of the history append leaves
\* _run_scan before the settings are saved
RunScanSucceededHistoryRaises(t, size, duration, histOk, save) ==
    /\ pc[t] = "exec"
    /\ _session_scans' = StatsAfterSuccess(size, duration)[1]
    /\ _session_bytes' = StatsAfterSuccess(size, duration)[2]
    /\ _session_total_seconds' = StatsAfterSuccess(size, duration)[3]
    /\ history' = IF histOk THEN Append(history, HistoryRecord(t, size, duration))
                  ELSE history
    /\ since_reset' = since_reset + 1
    /\ LET written == [dir |-> job[t].file.dir, name |-> job[t].file.name,
                        isfile |-> TRUE]
           fl == IF size # << >> THEN files \cup {written} ELSE files
           data == SettingsData(scanner_select, prefix_input, output_dir_input,
                                extra_input)
       IN  IF save = "mkdirRaised" \/ ~histOk
           THEN /\ Escape(t, "OSError")
                /\ _last_error' = "-"
                /\ files' = fl
                /\ UNCHANGED <<prefix_input, dirs, config, next_file>>
           ELSE /\ AfterCycle(t, TRUE, fl, "-", ConfigAfterSave(save, config, data),
                              NextFileText(prefix_input, output_dir_input, dirs, fl))
                /\ UNCHANGED raised
    /\ UNCHANGED <<_stage, _scanners, _auto_continue_single, _advanced, _settings,
                   scanner_select, output_dir_input, format_select, resolution_input,
                   mode_select, source_select, extra_input, scan_notice,
                   select_status>>

\* _run_scan after a zero exit code.  histOk: append_history did not raise;
\* save: what _save_settings met ("saved", "writeFailed", or "mkdirRaised"
\* when CONFIG_PATH.parent.mkdir raises, outside its try)
RunScanSucceeded(t, size, duration, histOk, save) ==
    /\ pc[t] = "exec"
    /\ _session_scans' = StatsAfterSuccess(size, duration)[1]
    /\ _session_bytes' = StatsAfterSuccess(size, duration)[2]
    /\ _session_total_seconds' = StatsAfterSuccess(size, duration)[3]
    /\ history' = IF histOk THEN Append(history, HistoryRecord(t, size, duration))
                  ELSE history
    /\ since_reset' = since_reset + 1
    /\ LET written == [dir |-> job[t].file.dir, name |-> job[t].file.name,
                        isfile |-> TRUE]
           fl == IF size # << >> THEN files \cup {written} ELSE files
           data == SettingsData(scanner_select, prefix_input, output_dir_input,
                                extra_input)
       IN  IF save = "mkdirRaised"
           THEN /\ Escape(t, "OSError")
                /\ _last_error' = "-"
                /\ files' = fl
                /\ UNCHANGED <<prefix_input, dirs, config, next_file>>
           ELSE /\ AfterCycle(t, TRUE, fl, "-", ConfigAfterSave(save, config, data),
                              NextFileText(prefix_input, output_dir_input, dirs, fl))
                /\ UNCHANGED raised
    /\ UNCHANGED <<_stage, _scanners, _auto_continue_single, _advanced, _settings,
                   scanner_select, output_dir_input, format_select, resolution_input,
                   mode_select, source_select, extra_input, scan_notice,
                   select_status>>

\* a faulty ScanFailed: only a negative exit code counts as a failure
ScanFailedIfNegative(returncode) == returncode < 0

\* result.returncode != 0
ScanFailed(returncode) == returncode # 0

\* subprocess.run returned: the scan program exited with returncode
ExecExited(t, returncode, stdout, stderr, size, duration, histOk, save) ==
    /\ Running
    /\ IF ScanFailed(returncode)
       THEN RunScanFailed(t, stdout, stderr)
       ELSE RunScanSucceeded(t, size, duration, histOk, save)

(* --------------------------- other handlers --------------------------- *)

RefreshErrors == {"scanimage not found.", "scanimage -L timed out.", "scanimage -L failed."}

\* the value of #scanner_select after _set_select_options(options) with a
\* non-empty list: Select.set_options keeps a value that is still an option
\* or blanks it, and the code then takes the first option when the value is
\* falsy (whether a blank selection is falsy depends on the Textual version)
SelectAfterSetOptions(options) ==
    {BLANK, options[1]} \cup ({scanner_select} \cap {options[i] : i \in 1..Len(options)})

\* a faulty RefreshFailed: the failure is passed to set_last_error as well
RefreshFailedSetsLastError(why) ==
    /\ Running
    /\ why \in RefreshErrors
    /\ select_status' = why
    /\ _last_error' = why
    /\ UNCHANGED <<next_file, _stage, _scan_lock, _scan_queued, stats, _scanners,
                   _auto_continue_single, _advanced, _settings, widgets, scan_notice, history,
                   config, fs, pc, job, raised, cycles, since_reset>>

\* action_refresh_scanners when `scanimage -L` cannot be run, times out or
\* exits non-zero: the status labels and the log change, nothing else
RefreshFailed(why) ==
    /\ Running
    /\ why \in RefreshErrors
    /\ select_status' = why
    /\ UNCHANGED <<next_file, _stage, _scan_lock, _scan_queued, _last_error, stats, _scanners,
                   _auto_continue_single, _advanced, _settings, widgets, scan_notice, history,
                   config, fs, pc, job, raised, cycles, since_reset>>

\* a faulty RefreshListed: a single scanner found moves on to the scan panel
\* whether auto-continue is on or off
RefreshListedAlwaysContinues(scanners, chosen) ==
    /\ Running
    /\ _scanners' = scanners
    /\ IF scanners = << >>
       THEN /\ scanner_select' = BLANK
            /\ select_status' = "No scanners found."
            /\ UNCHANGED _stage
       ELSE /\ chosen \in SelectAfterSetOptions(scanners)
            /\ LET preferred == _settings.last_device
               IN  scanner_select' =
                       IF preferred # None /\ \E i \in 1..Len(scanners) : scanners[i] = preferred
                       THEN preferred ELSE chosen
            /\ select_status' = "Found 1 scanner(s)."
            /\ _stage' = IF Len(scanners) = 1 /\ _stage = "select"
                         THEN "scan" ELSE _stage
    /\ next_file' = IF _stage' = "scan" /\ _stage = "select"
                    THEN NextFileText(prefix_input, output_dir_input, dirs, files)
                    ELSE next_file
    /\ config' = IF scanner_select' # scanner_select
                 THEN <<SettingsData(scanner_select', prefix_input,
                                     output_dir_input, extra_input)>>
                 ELSE config
    /\ UNCHANGED <<_scan_lock, _scan_queued, _last_error, stats,
                   _auto_continue_single, _advanced, _settings, prefix_input, output_dir_input,
                   format_select, resolution_input, mode_select, source_select,
                   extra_input, scan_notice, history, fs, pc, job, raised, cycles,
                   since_reset>>

\* action_refresh_scanners with a parsed listing; chosen: the value the
\* select widget holds after _set_select_options.  A selection that changed
\* makes on_select_changed save the settings.
RefreshListed(scanners, chosen) ==
    /\ Running
    /\ _scanners' = scanners
    /\ IF scanners = << >>
       THEN /\ scanner_select' = BLANK
            /\ select_status' = "No scanners found."
            /\ UNCHANGED _stage
       ELSE /\ chosen \in SelectAfterSetOptions(scanners)
            /\ LET preferred == _settings.last_device
               IN  scanner_select' =
                       IF preferred # None /\ \E i \in 1..Len(scanners) : scanners[i] = preferred
                       THEN preferred ELSE chosen
            /\ select_status' = "Found 1 scanner(s)."
            /\ _stage' = IF _auto_continue_single /\ Len(scanners) = 1 /\ _stage = "select"
                         THEN "scan" ELSE _stage
    /\ next_file' = IF _stage' = "scan" /\ _stage = "select"
                    THEN NextFileText(prefix_input, output_dir_input, dirs, files)
                    ELSE next_file
    /\ config' = IF scanner_select' # scanner_select
                 THEN <<SettingsData(scanner_select', prefix_input,
                                     output_dir_input, extra_input)>>
                 ELSE config
    /\ UNCHANGED <<_scan_lock, _scan_queued, _last_error, stats,
                   _auto_continue_single, _advanced, _settings, prefix_input, output_dir_input,
                   format_select, resolution_input, mode_select, source_select,
                   extra_input, scan_notice, history, fs, pc, job, raised, cycles,
                   since_reset>>

\* _save_settings() at the end of a handler that has changed nothing else of
\* the configuration file: data is what it writes
SaveSettings(save, data) ==
    /\ config' = IF save = "mkdirRaised" THEN config
                 ELSE ConfigAfterSave(save, config, data)
    /\ raised' = IF save = "mkdirRaised" THEN "OSError" ELSE raised

\* the operator picks a device in #scanner_select (select panel visible):
\* on_select_changed
SelectDevice(d, save) ==
    /\ Running
    /\ _stage = "select"
    /\ \E i \in 1..Len(_scanners) : _scanners[i] = d
    /\ scanner_select' = d
    /\ SaveSettings(save, SettingsData(d, prefix_input, output_dir_input, extra_input))
    /\ UNCHANGED <<next_file, _stage, _scan_lock, _scan_queued, _last_error, stats, _scanners,
                   _auto_continue_single, _advanced, _settings, prefix_input, output_dir_input,
                   format_select, resolution_input, mode_select, source_select,
                   extra_input, scan_notice, select_status, history, fs, pc, job,
                   cycles, since_reset>>

\* a faulty ConfirmDevice: the scan panel is shown whether or not a device is
\* selected
ConfirmDeviceAlways ==
    /\ Running
    /\ _stage = "select"
    /\ _stage' = "scan"
    /\ next_file' = NextFileText(prefix_input, output_dir_input, dirs, files)
    /\ UNCHANGED <<_scan_lock, _scan_queued, _last_error, stats, _scanners,
                   _auto_continue_single, _advanced, _settings, widgets, scan_notice,
                   select_status, history, config, fs, pc, job, raised, cycles,
                   since_reset>>

\* the Continue button, or Enter in the select stage
ConfirmDevice ==
    /\ Running
    /\ _stage = "select"
    /\ IF active_device = None
       THEN /\ select_status' = "Select a scanner to continue."
            /\ UNCHANGED <<_stage, next_file>>
       ELSE /\ _stage' = "scan"
            /\ next_file' = NextFileText(prefix_input, output_dir_input, dirs, files)
            /\ UNCHANGED select_status
    /\ UNCHANGED <<_scan_lock, _scan_queued, _last_error, stats, _scanners,
                   _auto_continue_single, _advanced, _settings, widgets, scan_notice, history,
                   config, fs, pc, job, raised, cycles, since_reset>>

\* action_back, and the Back button: _set_stage("select")
action_back ==
    /\ Running
    /\ _stage' = "select"
    /\ select_status' = "Select a scanner to continue."
    /\ UNCHANGED <<next_file, _scan_lock, _scan_queued, _last_error, stats, _scanners,
                   _auto_continue_single, _advanced, _settings, widgets, scan_notice, history,
                   config, fs, pc, job, raised, cycles, since_reset>>

\* the operator types into #prefix_input, #output_dir_input or #extra_input
\* (scan panel visible): on_input_changed
EditPrefix(v, save) ==
    /\ Running
    /\ _stage = "scan"
    /\ prefix_input' = v
    /\ next_file' = NextFileText(v, output_dir_input, dirs, files)
    /\ SaveSettings(save, SettingsData(scanner_select, v, output_dir_input, extra_input))
    /\ UNCHANGED <<_stage, _scan_lock, _scan_queued, _last_error, stats, _scanners,
                   _auto_continue_single, _advanced, _settings, scanner_select, output_dir_input,
                   format_select, resolution_input, mode_select, source_select,
                   extra_input, scan_notice, select_status, history, fs, pc, job,
                   cycles, since_reset>>

\* a faulty EditOutputDir: the directory typed is created for the preview
EditOutputDirCreates(v, save) ==
    /\ Running
    /\ _stage = "scan"
    /\ output_dir_input' = v
    /\ dirs' = IF StripText(v) \in {""} \cup UncreatableDirs THEN dirs
                ELSE dirs \cup {StripText(v)}
    /\ next_file' = NextFileText(prefix_input, v, dirs, files)
    /\ SaveSettings(save, SettingsData(scanner_select, prefix_input, v, extra_input))
    /\ UNCHANGED <<_stage, _scan_lock, _scan_queued, _last_error, stats, _scanners,
                   _auto_continue_single, _advanced, _settings, scanner_select, prefix_input,
                   format_select, resolution_input, mode_select, source_select,
                   extra_input, scan_notice, select_status, history, files, pc, job,
                   cycles, since_reset>>

\* on_input_changed of #output_dir_input
EditOutputDir(v, save) ==
    /\ Running
    /\ _stage = "scan"
    /\ output_dir_input' = v
    /\ next_file' = NextFileText(prefix_input, v, dirs, files)
    /\ SaveSettings(save, SettingsData(scanner_select, prefix_input, v, extra_input))
    /\ UNCHANGED <<_stage, _scan_lock, _scan_queued, _last_error, stats, _scanners,
                   _auto_continue_single, _advanced, _settings, scanner_select, prefix_input,
                   format_select, resolution_input, mode_select, source_select,
                   extra_input, scan_notice, select_status, history, fs, pc, job,
                   cycles, since_reset>>

\* on_input_changed of #resolution_input
EditResolution(v, save) ==
    /\ Running
    /\ _stage = "scan"
    /\ resolution_input' = v
    /\ SaveSettings(save, [SettingsData(scanner_select, prefix_input, output_dir_input,
                                        extra_input)
                           EXCEPT !.resolution = StripText(v)])
    /\ UNCHANGED <<next_file, _stage, _scan_lock, _scan_queued, _last_error, stats,
                   _scanners, _auto_continue_single, _advanced, _settings, scanner_select,
                   prefix_input, output_dir_input, format_select, mode_select,
                   source_select, extra_input, scan_notice, select_status, history,
                   fs, pc, job, cycles, since_reset>>

\* a faulty EditExtra: the new value reaches the job that is being executed
EditExtraAltersJob(v, save) ==
    /\ Running
    /\ _stage = "scan"
    /\ extra_input' = v
    /\ SaveSettings(save, SettingsData(scanner_select, prefix_input, output_dir_input, v))
    /\ job' = [t \in Tasks |-> IF pc[t] = "exec" THEN [job[t] EXCEPT !.extra = v]
                                ELSE job[t]]
    /\ UNCHANGED <<next_file, _stage, _scan_lock, _scan_queued, _last_error, stats, _scanners,
                   _auto_continue_single, _advanced, _settings, scanner_select, prefix_input,
                   output_dir_input, format_select, resolution_input, mode_select,
                   source_select, scan_notice, select_status, history, fs, pc,
                   cycles, since_reset>>

EditExtra(v, save) ==
    /\ Running
    /\ _stage = "scan"
    /\ extra_input' = v
    /\ SaveSettings(save, SettingsData(scanner_select, prefix_input, output_dir_input, v))
    /\ UNCHANGED <<next_file, _stage, _scan_lock, _scan_queued, _last_error, stats, _scanners,
                   _auto_continue_single, _advanced, _settings, scanner_select, prefix_input,
                   output_dir_input, format_select, resolution_input, mode_select,
                   source_select, scan_notice, select_status, history, fs, pc, job,
                   cycles, since_reset>>

\* a faulty action_reset_count: the byte total is not reset
ResetCountKeepsBytes ==
    /\ Running
    /\ _session_scans' = 0
    /\ _session_total_seconds' = 0
    /\ since_reset' = 0
    /\ UNCHANGED <<next_file, _stage, _scan_lock, _scan_queued, _last_error, _session_bytes,
                   _scanners, _auto_continue_single, _advanced, _settings, widgets, scan_notice,
                   select_status, history, config, fs, pc, job, raised, cycles>>

\* a faulty action_reset_count: the scan count is not reset
ResetCountKeepsScans ==
    /\ Running
    /\ _session_bytes' = 0
    /\ _session_total_seconds' = 0
    /\ since_reset' = 0
    /\ UNCHANGED <<next_file, _stage, _scan_lock, _scan_queued, _last_error, _session_scans,
                   _scanners, _auto_continue_single, _advanced, _settings, widgets, scan_notice,
                   select_status, history, config, fs, pc, job, raised, cycles>>

action_reset_count ==
    /\ Running
    /\ _session_scans' = 0
    /\ _session_bytes' = 0
    /\ _session_total_seconds' = 0
    /\ since_reset' = 0
    /\ UNCHANGED <<next_file, _stage, _scan_lock, _scan_queued, _last_error, _scanners,
                   _auto_continue_single, _advanced, _settings, widgets, scan_notice,
                   select_status, history, config, fs, pc, job, raised, cycles>>

\* set_last_error("-")
action_clear_last_error ==
    /\ Running
    /\ _last_error' = "-"
    /\ UNCHANGED <<next_file, _stage, _scan_lock, _scan_queued, stats, _scanners,
                   _auto_continue_single, _advanced, _settings, widgets, scan_notice,
                   select_status, history, config, fs, pc, job, raised, cycles,
                   since_reset>>

\* action_toggle_auto_continue: the flag is flipped and saved, then the
\* select status is rewritten
action_toggle_auto_continue(save) ==
    /\ Running
    /\ _auto_continue_single' = ~_auto_continue_single
    /\ config' = IF save = "mkdirRaised" THEN config
                 ELSE ConfigAfterSave(save, config,
                          [SettingsData(scanner_select, prefix_input, output_dir_input,
                                        extra_input)
                             EXCEPT !.auto_continue_single = ~_auto_continue_single])
    /\ raised' = IF save = "mkdirRaised" THEN "OSError" ELSE raised
    /\ select_status' = IF save = "mkdirRaised" THEN select_status
                        ELSE "Select a scanner to continue."
    /\ UNCHANGED <<next_file, _stage, _scan_lock, _scan_queued, _last_error, stats, _scanners,
                   _advanced, _settings, widgets, scan_notice, history, fs, pc, job,
                   cycles, since_reset>>

\* action_toggle_advanced: _set_advanced flips the flag and shows or hides the
\* panel; nothing is written to the configuration file
action_toggle_advanced ==
    /\ Running
    /\ _stage = "scan"
    /\ _advanced' = ~_advanced
    /\ UNCHANGED <<next_file, _stage, _scan_lock, _scan_queued, _last_error, stats, _scanners,
                   _auto_continue_single, _settings, widgets, scan_notice, select_status,
                   history, config, fs, pc, job, raised, cycles, since_reset>>

\* action_toggle_gray: #mode_select goes to Gray, or back to Color, and the
\* settings are saved
action_toggle_gray(save) ==
    /\ Running
    /\ _stage = "scan"
    /\ mode_select' = IF mode_select # "Gray" THEN "Gray" ELSE "Color"
    /\ SaveSettings(save, [SettingsData(scanner_select, prefix_input, output_dir_input,
                                        extra_input)
                             EXCEPT !.mode = mode_select'])
    /\ UNCHANGED <<next_file, _stage, _scan_lock, _scan_queued, _last_error, stats, _scanners,
                   _auto_continue_single, _advanced, _settings, scanner_select,
                   prefix_input, output_dir_input, format_select, resolution_input,
                   source_select, extra_input, scan_notice, select_status, history, fs,
                   pc, job, cycles, since_reset>>

(* --------------------------- specification ---------------------------- *)

\* the handlers around the scan cycle
Next ==
    \/ \E f \in BOOLEAN : action_scan(f)
    \/ \E t \in Tasks : ExecTimeout(t)
    \/ \E t \in Tasks : ExecSpawnFailed(t)
    \/ \E t \in Tasks, rc \in ReturnCodes, out \in OutputTexts, err \in OutputTexts,
          size \in Sizes, d \in Durations, h \in HistoryOutcomes, sv \in SaveOutcomes :
           ExecExited(t, rc, out, err, size, d, h, sv)
    \/ \E l \in ScannerLists, c \in Devices \cup {BLANK} : RefreshListed(l, c)
    \/ \E d \in Devices, sv \in EditSaveOutcomes : SelectDevice(d, sv)
    \/ ConfirmDevice
    \/ action_back
    \/ \E v \in PrefixInputs, sv \in EditSaveOutcomes : EditPrefix(v, sv)
    \/ \E v \in DirInputs, sv \in EditSaveOutcomes : EditOutputDir(v, sv)
    \/ \E v \in ExtraInputs, sv \in EditSaveOutcomes : EditExtra(v, sv)
    \/ action_reset_count
    \/ action_clear_last_error

Spec == Init /\ [][Next]_vars

\* the handlers around the device selection and the stage, with every outcome
\* of a refresh; the scan program's output and the typed directory and extra
\* options are left as they start
NextSelect ==
    \/ \E why \in RefreshErrors : RefreshFailed(why)
    \/ \E l \in ScannerLists, c \in Devices \cup {BLANK} : RefreshListed(l, c)
    \/ \E d \in Devices, sv \in EditSaveOutcomes : SelectDevice(d, sv)
    \/ ConfirmDevice
    \/ action_back
    \/ \E sv \in EditSaveOutcomes : action_toggle_auto_continue(sv)
    \/ \E f \in BOOLEAN : action_scan(f)
    \/ \E t \in Tasks : ExecTimeout(t)
    \/ \E t \in Tasks : ExecSpawnFailed(t)
    \/ \E t \in Tasks, rc \in ReturnCodes, size \in Sizes, d \in Durations,
          h \in HistoryOutcomes :
           ExecExited(t, rc, "", "", size, d, h, "saved")
    \/ \E v \in PrefixInputs, sv \in EditSaveOutcomes : EditPrefix(v, sv)
    \/ action_reset_count
    \/ action_clear_last_error

SpecSelect == Init /\ [][NextSelect]_vars

\* the scan cycle with every outcome of a scan that exited with code 0: the
\* size known or not, the history appended or not, the settings saved or not
NextOutcomes ==
    \/ \E l \in ScannerLists, c \in Devices \cup {BLANK} : RefreshListed(l, c)
    \/ \E f \in BOOLEAN : action_scan(f)
    \/ \E t \in Tasks : ExecTimeout(t)
    \/ \E t \in Tasks, rc \in ReturnCodes, size \in AllSizes, d \in Durations,
          h \in AllHistoryOutcomes, sv \in AllSaveOutcomes :
           ExecExited(t, rc, "", "", size, d, h, sv)
    \/ \E v \in PrefixInputs, sv \in EditSaveOutcomes : EditPrefix(v, sv)
    \/ action_reset_count

SpecOutcomes == Init /\ [][NextOutcomes]_vars

\* two scanners, and the operator choosing the other scanner and typing other
\* usable values while scans succeed
NextEdits ==
    \/ \E c \in {TwoScanners[i] : i \in 1..2} \cup {BLANK} : RefreshListed(TwoScanners, c)
    \/ \E d \in {TwoScanners[i] : i \in 1..2}, sv \in EditSaveOutcomes : SelectDevice(d, sv)
    \/ ConfirmDevice
    \/ action_back
    \/ \E f \in BOOLEAN : action_scan(f)
    \/ \E t \in Tasks, size \in Sizes, d \in Durations, h \in HistoryOutcomes :
           ExecExited(t, 0, "", "", size, d, h, "saved")
    \/ \E v \in OtherPrefixes, sv \in EditSaveOutcomes : EditPrefix(v, sv)
    \/ \E v \in OtherDirs, sv \in EditSaveOutcomes : EditOutputDir(v, sv)
    \/ \E v \in OtherExtras, sv \in EditSaveOutcomes : EditExtra(v, sv)

SpecEdits == Init /\ [][NextEdits]_vars

\* a session that starts on an output directory with entries in it, and
\* scans into it under either prefix
InitIndex == \E l \in Listings : InitOn(l.dirs, l.files)

NextIndex ==
    \/ \E l \in ScannerLists, c \in Devices \cup {BLANK} : RefreshListed(l, c)
    \/ \E f \in BOOLEAN : action_scan(f)
    \/ \E t \in Tasks, size \in Sizes, d \in Durations, h \in HistoryOutcomes :
           ExecExited(t, 0, "", "", size, d, h, "saved")
    \/ \E v \in OtherPrefixes, sv \in EditSaveOutcomes : EditPrefix(v, sv)

SpecIndex == InitIndex /\ [][NextIndex]_vars

\* a session that starts on an output directory whose indices have reached
\* five digits
InitLarge == \E l \in LargeListings : InitOn(l.dirs, l.files)

SpecLarge == InitLarge /\ [][NextIndex]_vars

\* the state after on_mount when the loaded record gives the settings st:
\* a prefix or an output directory that differs from the value the widget
\* was composed with makes on_input_changed run
InitLoaded(st, err) ==
    LET changed == st.prefix # DefaultSettings.prefix
                     \/ st.output_dir # DefaultSettings.output_dir
    IN  InitState({}, {}, st,
                  IF changed THEN NextFileText(st.prefix, st.output_dir, {}, {})
                  ELSE << >>,
                  IF changed THEN <<SettingsData(BLANK, st.prefix, st.output_dir, "")>>
                  ELSE << >>,
                  err)

\* what can be at CONFIG_PATH when the session starts: nothing; text that is
\* not JSON; JSON that is a list; the JSON object {}; a JSON object with a
\* prefix and auto-continue switched off
PersistedData ==
    << [kind |-> "missing", items |-> << >>],
       [kind |-> "unparsable", items |-> << >>],
       [kind |-> "list", items |-> <<1, 2>>],
       [kind |-> "dict", items |-> << >>],
       [kind |-> "dict", items |-> [prefix |-> <<"d", "o", "c">>,
                                    auto_continue_single |-> FALSE]] >>

\* _load_settings(): {} when the file is missing or json.load raises,
\* otherwise whatever json.load returns
_load_settings(p) ==
    IF p.kind \in {"missing", "unparsable"} THEN [type |-> "dict", items |-> << >>]
    ELSE [type |-> p.kind, items |-> p.items]

\* dict.get(key, default)
JsonGet(items, key, default) == IF key \in DOMAIN items THEN items[key] ELSE default

\* the settings __init__ and _apply_scan_settings take from a loaded dict
StartupSettings(loaded) ==
    [prefix |-> JsonGet(loaded.items, "prefix", DefaultSettings.prefix),
     output_dir |-> JsonGet(loaded.items, "output_dir", DefaultSettings.output_dir),
     auto_continue_single |-> JsonGet(loaded.items, "auto_continue_single", TRUE),
     advanced |-> JsonGet(loaded.items, "advanced", FALSE),
     last_device |-> JsonGet(loaded.items, "last_device", None)]

\* a session that starts on any of these: self._settings.get(...) in
\* __init__ raises AttributeError when the loaded value is not a dict, and
\* no handler ever runs
InitStart ==
    \E i \in 1..Len(PersistedData) :
        LET loaded == _load_settings(PersistedData[i])
        IN  IF loaded.type = "dict"
            THEN InitLoaded(StartupSettings(loaded), None)
            ELSE InitLoaded(DefaultSettings, "AttributeError")

SpecStart == InitStart /\ [][NextIndex]_vars

\* a session that finds any prefix in its configuration file, and scans
InitSanitize ==
    \E v \in PrefixTexts : InitLoaded([DefaultSettings EXCEPT !.prefix = v], None)

NextSanitize ==
    \/ \E c \in Devices : RefreshListed(<<c>>, c)
    \/ \E f \in BOOLEAN : action_scan(f)
    \/ \E t \in Tasks : ExecTimeout(t)

SpecSanitize == InitSanitize /\ [][NextSanitize]_vars

\* the operator typing a prefix and a resolution, and scanning
NextResolution ==
    \/ \E l \in ScannerLists, c \in Devices \cup {BLANK} : RefreshListed(l, c)
    \/ \E v \in PrefixInputs, sv \in EditSaveOutcomes : EditPrefix(v, sv)
    \/ \E v \in ResolutionInputs, sv \in EditSaveOutcomes : EditResolution(v, sv)
    \/ \E f \in BOOLEAN : action_scan(f)
    \/ \E t \in Tasks : ExecTimeout(t)

SpecResolution == Init /\ [][NextResolution]_vars

\* the commands that change a setting, on either panel
NextSettings ==
    \/ \E l \in ScannerLists, c \in Devices \cup {BLANK} : RefreshListed(l, c)
    \/ \E d \in Devices, sv \in EditSaveOutcomes : SelectDevice(d, sv)
    \/ ConfirmDevice
    \/ \E v \in PrefixInputs, sv \in EditSaveOutcomes : EditPrefix(v, sv)
    \/ \E v \in ResolutionInputs, sv \in EditSaveOutcomes : EditResolution(v, sv)
    \/ \E sv \in EditSaveOutcomes : action_toggle_gray(sv)
    \/ \E sv \in EditSaveOutcomes : action_toggle_auto_continue(sv)
    \/ action_toggle_advanced

SpecSettings == Init /\ [][NextSettings]_vars

\* two scanners, and the operator refreshing the list onto either scanner,
\* toggling the mode and typing a resolution while scans succeed
NextHistory ==
    \/ \E c \in {TwoScanners[i] : i \in 1..2} \cup {BLANK} : RefreshListed(TwoScanners, c)
    \/ ConfirmDevice
    \/ \E f \in BOOLEAN : action_scan(f)
    \/ \E t \in Tasks, size \in Sizes, d \in Durations, h \in HistoryOutcomes :
           ExecExited(t, 0, "", "", size, d, h, "saved")
    \/ \E sv \in EditSaveOutcomes : action_toggle_gray(sv)
    \/ \E v \in ResolutionInputs, sv \in EditSaveOutcomes : EditResolution(v, sv)

SpecHistory == Init /\ [][NextHistory]_vars

\* a session that starts on a configuration file with no last_device, or
\* with either scanner as last_device
InitPreferred ==
    \E d \in {None} \cup {TwoScanners[i] : i \in 1..2} :
        InitLoaded([DefaultSettings EXCEPT !.last_device = d], None)

\* one or two scanners listed, and the operator choosing among them, going
\* to the scan panel and back, and scanning
NextPreferred ==
    \/ \E l \in {TwoScanners, <<TwoScanners[2]>>},
          c \in {TwoScanners[i] : i \in 1..2} \cup {BLANK} : RefreshListed(l, c)
    \/ \E d \in {TwoScanners[i] : i \in 1..2}, sv \in EditSaveOutcomes : SelectDevice(d, sv)
    \/ ConfirmDevice
    \/ action_back
    \/ \E f \in BOOLEAN : action_scan(f)
    \/ \E t \in Tasks : ExecTimeout(t)

SpecPreferred == InitPreferred /\ [][NextPreferred]_vars

\* the call of the scan program of invocation t returns or times out
ExecEnds(t) ==
    \/ ExecTimeout(t)
    \/ \E rc \in ReturnCodes, size \in Sizes, d \in Durations, h \in HistoryOutcomes :
           ExecExited(t, rc, "", "", size, d, h, "saved")

\* scanning and queueing, where every call of the scan program ends:
\* subprocess.run returns when the program exits and raises TimeoutExpired
\* after 120 s otherwise
NextLive ==
    \/ \E l \in ScannerLists, c \in Devices \cup {BLANK} : RefreshListed(l, c)
    \/ \E f \in BOOLEAN : action_scan(f)
    \/ \E t \in Tasks : ExecEnds(t)

SpecLive == Init /\ [][NextLive]_vars /\ \A t \in Tasks : WF_vars(ExecEnds(t))

(* ------------------------------ properties ---------------------------- *)

\* steps of invocation t, by what the scan program did
ExitStep(t, returncode, stderr) ==
    \E out \in OutputTexts, size \in Sizes, d \in Durations,
       h \in HistoryOutcomes, sv \in SaveOutcomes :
        ExecExited(t, returncode, out, stderr, size, d, h, sv)
ReturnedTrueStep(t) ==
    \E out \in OutputTexts, err \in OutputTexts, size \in Sizes, d \in Durations,
       h \in HistoryOutcomes :
        ExecExited(t, 0, out, err, size, d, h, "saved")
NonZeroExitStep(t) == \E err \in OutputTexts : ExitStep(t, 1, err)
BuildFailedStep(t) ==
    /\ \E f \in BOOLEAN : ScanStart(t, f)
    /\ RunScanBuild(files).res = "fail"
\* a step in which the call of the scan program of invocation t ends
ExecStep(t) ==
    \/ ExecTimeout(t)
    \/ ExecSpawnFailed(t)
    \/ \E rc \in ReturnCodes, err \in OutputTexts : ExitStep(t, rc, err)
\* a step in which a scan cycle of invocation t fails
FailedCycleStep(t) ==
    \/ BuildFailedStep(t)
    \/ ExecTimeout(t)
    \/ ExecSpawnFailed(t)
    \/ NonZeroExitStep(t)

IsMessage(e) == e \notin {None, "-", ""}

\* C1: at most one call of the scan program is in flight at any time, under
\* every interleaving of action_scan with the other handlers.
C1_OneExecutorCall == Cardinality(InFlight) <= 1

\* C1 witness: two more scan requests arrived while a call was in flight.
C1_Witness ==
    /\ Cardinality(InFlight) = 1
    /\ _scan_queued
    /\ scan_notice = "Scan already queued."

C3_ThirdRequestNoOp ==
    [][\A f \in BOOLEAN :
          (action_scan(f) /\ ScanAccepted(f) /\ _scan_lock /\ _scan_queued) =>
              /\ _scan_queued'
              /\ scan_notice' = "Scan already queued."
              /\ UNCHANGED <<next_file, _stage, _scan_lock, _last_error, stats, _scanners,
                             _auto_continue_single, _advanced, _settings, widgets, select_status,
                             history, config, fs, pc, job, raised, cycles,
                             since_reset>>]_vars

\* C3 witness: the notice was given with one cycle active and one queued.
C3_Witness ==
    /\ scan_notice = "Scan already queued."
    /\ _scan_lock
    /\ _scan_queued
    /\ cycles = 1
    /\ _session_scans = 0

C5_NoScanWhileSelecting == _stage = "select" => InFlight = {}

\* C6: action_scan called while the stage is not "scan" changes nothing.
C6_ScanIgnoredOutsideReady ==
    [][\A f \in BOOLEAN : (action_scan(f) /\ _stage # "scan") => UNCHANGED vars]_vars

\* C6 witness: the select stage with a device chosen, the lock free and room
\* for a cycle, where a scan request not ignored would start one.
C6_Witness ==
    /\ _stage = "select"
    /\ active_device # None
    /\ ~_scan_lock
    /\ cycles < MaxCycles

\* C7: a step in which a scan cycle fails leaves the statistics and the
\* history as they were; the statistics grow and the history changes only
\* in a step in which the scan program exited with code 0.
C7_FailureKeepsStats ==
    [][/\ \A t \in Tasks : FailedCycleStep(t) => UNCHANGED <<stats, history>>
       /\ (history' # history \/ _session_scans' > _session_scans
             \/ _session_bytes' > _session_bytes
             \/ _session_total_seconds' > _session_total_seconds)
            => \E t \in Tasks, err \in OutputTexts : ExitStep(t, 0, err)]_vars

\* C7 witness: a failed cycle after a successful one, the counts still at one.
C7_Witness ==
    /\ _last_error = "Scan failed"
    /\ _session_scans = 1
    /\ _session_bytes = 2048
    /\ Len(history) = 1
    /\ cycles = 2
    /\ ~_scan_lock

\* C8 as claimed: every failure of a scan cycle run in the "scan" stage
\* sets _last_error to a message, leaves the stage and frees the lock.
C8_FailureReported ==
    [][\A t \in Tasks : (FailedCycleStep(t) /\ _stage = "scan") =>
          /\ IsMessage(_last_error')
          /\ _stage' = "scan"
          /\ ~_scan_lock']_vars

\* C9 as claimed: after a non-zero exit with a non-empty stderr text,
\* _last_error is that text.
C9_LastErrorIsStderr ==
    [][\A t \in Tasks, err \in OutputTexts :
          (ExitStep(t, 1, err) /\ StripText(err) # "") => _last_error' = StripText(err)]_vars

\* C9 amended: after a non-zero exit _last_error is the fixed text
\* "Scan failed", whatever the scan program wrote to stderr.
C9_LastErrorIsFixedText ==
    [][\A t \in Tasks, err \in OutputTexts :
          ExitStep(t, 1, err) => _last_error' = "Scan failed"]_vars

\* C9 witness: a cycle ended by a non-zero exit.
C9_Witness ==
    /\ _last_error = "Scan failed"
    /\ cycles = 1
    /\ ~_scan_lock

\* C10 as claimed: when the scan program cannot be started, the failure is
\* recorded in _last_error, no exception leaves action_scan, and the lock
\* and the queue slot are both free afterwards.
C10_SpawnFailureHandled ==
    [][\A t \in Tasks : ExecSpawnFailed(t) =>
          /\ IsMessage(_last_error')
          /\ raised' = None
          /\ ~_scan_lock'
          /\ ~_scan_queued']_vars

SucceededStep(t, size, duration, histOk, save) ==
    \E out \in OutputTexts, err \in OutputTexts :
        ExecExited(t, 0, out, err, size, duration, histOk, save)

\* C12: a scan that exited with code 0 adds one to _session_scans, the size
\* to _session_bytes when stat gave one and nothing otherwise, and the
\* duration to _session_total_seconds; when append_history does not fail
\* exactly one record is appended to the history; when the settings file can
\* be written it holds the current settings afterwards; and when the cycle
\* ends there (nothing queued) _last_error is "-", as after
\* action_clear_last_error.
C12_SuccessUpdatesSession ==
    [][\A t \in Tasks, size \in AllSizes, d \in Durations, h \in AllHistoryOutcomes,
          sv \in AllSaveOutcomes :
          SucceededStep(t, size, d, h, sv) =>
              /\ _session_scans' = _session_scans + 1
              /\ _session_bytes' = IF size = << >> THEN _session_bytes
                                   ELSE _session_bytes + size[1]
              /\ _session_total_seconds' = _session_total_seconds + d
              /\ h => /\ Len(history') = Len(history) + 1
                      /\ SubSeq(history', 1, Len(history)) = history
                      /\ history'[Len(history')].file = job[t].file
              /\ sv = "saved" =>
                     config' = <<SettingsData(scanner_select', prefix_input',
                                              output_dir_input', extra_input')>>
              /\ (sv # "mkdirRaised" /\ ~_scan_queued) => _last_error' = "-"]_vars

\* C12 witness: from zeroed statistics one scan of 2048 bytes and 1.5 s
\* (15 tenths) has succeeded.
C12_Witness ==
    /\ _session_scans = 1
    /\ _session_bytes = 2048
    /\ _session_total_seconds = 15
    /\ Len(history) = 1
    /\ config # << >>
    /\ _last_error = "-"
    /\ cycles = 1

\* C13: a step in which _session_scans, _session_bytes or
\* _session_total_seconds gets smaller is a step of action_reset_count, and
\* a step of action_reset_count leaves all three at zero.
C13_StatsDecreaseOnlyOnReset ==
    [][/\ (\/ _session_scans' < _session_scans
           \/ _session_bytes' < _session_bytes
           \/ _session_total_seconds' < _session_total_seconds) => action_reset_count
       /\ action_reset_count => /\ _session_scans' = 0
                                /\ _session_bytes' = 0
                                /\ _session_total_seconds' = 0]_vars

\* C13 witness: the statistics were reset after a scan had succeeded, and
\* have grown again since.
C13_Witness ==
    /\ Len(history) = 2
    /\ _session_scans = 1
    /\ _session_bytes = 2048
    /\ ~_scan_lock

\* C14: _session_scans is the number of scans that have succeeded since the
\* last action_reset_count (or since the start), wherever the reset fell:
\* it is 1 after a reset followed by exactly one success, also when the
\* reset ran while that scan was in flight.
C14_CountSinceReset == _session_scans = since_reset

\* C14 witness: two scans have succeeded, the statistics were reset after the
\* first or during the second, and the count is 1.
C14_Witness ==
    /\ since_reset = 1
    /\ _session_scans = 1
    /\ Len(history) = 2
    /\ cycles = 2

\* the four checks of _run_scan, each on its own, on the current widgets
NoDeviceSelected == scanner_select \in {BLANK, ""}
EmptyPrefix == sanitize_prefix(prefix_input) = << >>
OutputDirUnavailable ==
    StripText(output_dir_input) = "" \/ StripText(output_dir_input) \in UncreatableDirs
MalformedExtraArgs == StripText(extra_input) \in UnbalancedExtras

\* the message of the earliest check that fails, None when none does
FirstValidationError ==
    IF NoDeviceSelected THEN "No scanner selected"
    ELSE IF EmptyPrefix THEN "Prefix empty"
    ELSE IF OutputDirUnavailable THEN "Output directory error"
    ELSE IF MalformedExtraArgs THEN "Extra options parse error"
    ELSE None

\* C15: a cycle started by action_scan reports the earliest failing check
\* of the order device, prefix, output directory, extra options, whatever
\* the later checks would say, and does not call the scan program; when no
\* check fails the scan program is called.
C15_FirstFailureWins ==
    [][\A t \in Tasks, f \in BOOLEAN : ScanStart(t, f) =>
          IF FirstValidationError # None
          THEN /\ _last_error' = FirstValidationError
               /\ pc'[t] = "idle"
               /\ job'[t] = NoJob
          ELSE pc'[t] = "exec"]_vars

\* C15 witness: every check would fail, and the first one was reported.
C15_Witness ==
    /\ _last_error = "No scanner selected"
    /\ NoDeviceSelected
    /\ EmptyPrefix
    /\ OutputDirUnavailable
    /\ MalformedExtraArgs
    /\ cycles = 1
    /\ InFlight = {}

\* C16: confirming (Continue button, or Enter on the select panel) with no
\* device selected leaves the select panel showing and says so in the select
\* status line; with a device selected it shows the scan panel.
C16_ConfirmNeedsDevice ==
    [][ConfirmDevice =>
          IF active_device = None
          THEN /\ _stage' = "select"
               /\ select_status' = "Select a scanner to continue."
          ELSE _stage' = "scan"]_vars

\* C16 witness: with auto-continue off a scanner was found, and the scan
\* panel shows although no scan has been asked for.
C16_Witness ==
    /\ _stage = "scan"
    /\ ~_auto_continue_single
    /\ active_device # None
    /\ select_status = "Found 1 scanner(s)."
    /\ cycles = 0

\* a refresh that found exactly one scanner while auto-continue is on and
\* the select panel shows
AutoContinueStep ==
    /\ _auto_continue_single
    /\ _stage = "select"
    /\ \E l \in ScannerLists, c \in Devices \cup {BLANK} :
          Len(l) = 1 /\ RefreshListed(l, c)

\* C17 as stated: the scan panel replaces the select panel only in a confirm
\* step with a device selected, and the select panel returns only in a back
\* step.
C17_StageChangesOnlyOnConfirmOrBack ==
    [][/\ (_stage = "select" /\ _stage' = "scan") =>
              (active_device # None /\ ConfirmDevice)
       /\ (_stage = "scan" /\ _stage' = "select") => action_back]_vars

\* C17: the scan panel replaces the select panel only in a confirm step with
\* a device selected or in a refresh that found exactly one scanner while
\* auto-continue is on; the select panel returns only in a back step; no
\* other handler changes the stage.
C17_StageChangesOnlyOnConfirmAutoContinueOrBack ==
    [][/\ (_stage = "select" /\ _stage' = "scan") =>
              \/ (active_device # None /\ ConfirmDevice)
              \/ AutoContinueStep
       /\ (_stage = "scan" /\ _stage' = "select") => action_back]_vars

\* C17 witness: the scan panel shows after a refresh found one scanner with
\* auto-continue on; nothing was saved and no scan was asked for.
C17_Witness ==
    /\ _stage = "scan"
    /\ _auto_continue_single
    /\ Len(_scanners) = 1
    /\ select_status = "Found 1 scanner(s)."
    /\ config = << >>
    /\ cycles = 0

\* a step in which invocation t, its call of the scan program over, goes on
\* to the queued cycle
QueuedCycleStarts(t) == pc[t] = "exec" /\ cycles' = cycles + 1

\* C18: the queued cycle is entered only in the step in which the active
\* cycle has returned successfully: by then the statistics count that scan,
\* its record is the last of the history, its file is in the output directory,
\* the settings are saved, and the job of the queued cycle is built after all
\* that (it gets a file name of its own).  The lock is held before the step
\* and, when the queued cycle reaches the scan program, after it; no other
\* invocation moves in the step, and a call in flight always holds the lock.
C18_QueuedStartsAfterCompletion ==
    [][/\ \A t \in Tasks : QueuedCycleStarts(t) =>
              /\ _scan_queued
              /\ _scan_lock
              /\ pc'[t] = "exec" => _scan_lock'
              /\ _session_scans' = _session_scans + 1
              /\ _session_total_seconds' > _session_total_seconds
              /\ Len(history') = Len(history) + 1
              /\ history'[Len(history')].file = job[t].file
              /\ \E g \in files' : /\ g.dir = job[t].file.dir
                                   /\ g.name = job[t].file.name
              /\ config' = <<SettingsData(scanner_select', prefix_input',
                                          output_dir_input', extra_input')>>
              /\ pc'[t] = "exec" => job'[t].file # job[t].file
              /\ \A u \in Tasks \ {t} : pc'[u] = pc[u]
       /\ InFlight # {} => _scan_lock
       /\ InFlight' # {} => _scan_lock']_vars

\* C18 witness: a scan was queued during the first cycle, the first cycle
\* is in the statistics and the history, and the queued one is in flight.
C18_Witness ==
    /\ cycles = 2
    /\ InFlight # {}
    /\ _scan_lock
    /\ ~_scan_queued
    /\ scan_notice = "Queued one scan."
    /\ _session_scans = 1
    /\ Len(history) = 1
    /\ raised = None

\* a step in which invocation t enters a scan cycle, its first or the
\* queued one
CycleEntered(t) == cycles' = cycles + 1 /\ pc'[t] = "exec"

\* C19: while the call of the scan program of an invocation is in flight no
\* step changes its job, whatever the operator selects or types; and a cycle
\* that is entered, the queued one included, is built from the widgets as
\* they are at that moment.
C19_JobFixedEditsUsedNext ==
    [][\A t \in Tasks :
          /\ (pc[t] = "exec" /\ pc'[t] = "exec" /\ cycles' = cycles) =>
                 job'[t] = job[t]
          /\ CycleEntered(t) =>
                 /\ job'[t].device = DeviceOf(scanner_select')
                 /\ job'[t].file.dir = StripText(output_dir_input')
                 /\ SubSeq(job'[t].file.name, 1, Len(prefix_input')) = prefix_input'
                 /\ job'[t].format = format_select'
                 /\ job'[t].resolution = safe_int(StripText(resolution_input'), 300)
                 /\ job'[t].mode = mode_select'
                 /\ job'[t].source = source_select'
                 /\ job'[t].extra = StripText(extra_input')]_vars

\* C19 witness: the first scan ran on the first scanner with the initial
\* settings; the scanner, prefix, directory and extra options were changed
\* and a scan was queued while it was in flight, and the queued cycle is in
\* flight with the new values.
C19_Witness ==
    /\ cycles = 2
    /\ ~_scan_queued
    /\ scan_notice = "Queued one scan."
    /\ Len(history) = 1
    /\ history[1].file = [dir |-> "./scans", name |-> FileName(<<"s", "c", "a", "n">>, 1, "png")]
    /\ \E t \in Tasks :
          /\ pc[t] = "exec"
          /\ job[t].device = "dev2"
          /\ job[t].file = [dir |-> "./out", name |-> FileName(<<"d", "o", "c">>, 1, "png")]
          /\ job[t].extra = "-l 5"

\* name reads prefix, "_", the four digits of n, anything, ".", ext, letter
\* case aside
IndexedAs(prefix, ext, name, n) ==
    LET head == prefix \o <<"_">>
        tail == <<".">> \o Chars(ext)
    IN  /\ Len(name) >= Len(head) + 4 + Len(tail)
        /\ SubSeq(name, Len(head) + 1, Len(head) + 4) = Format04d(n)
        /\ Lower(SubSeq(name, 1, Len(head))) = Lower(head)
        /\ Lower(SubSeq(name, Len(name) - Len(tail) + 1, Len(name))) = tail

\* the indices of the regular files of output_dir that are scans of prefix
\* with the extension ext
IndicesIn(prefix, output_dir, ext) ==
    LET regular == {g \in files : g.dir = output_dir /\ g.isfile}
    IN  {n \in 0..MaxIndex : \E g \in regular : IndexedAs(prefix, ext, g.name, n)}

\* C20: whatever is in the directory, next_index is 1 when the directory is
\* missing or holds no regular file named prefix_NNNN...ext (letter case
\* aside), and otherwise one more than the largest NNNN of those files.
C20_NextIndexIsOnePlusMax ==
    \A prefix \in {prefix_input} \cup OtherPrefixes, ext \in {"png", "pdf"},
       output_dir \in {"./scans"} :
        LET indices == IndicesIn(prefix, output_dir, ext)
        IN  next_index(prefix, output_dir, ext, dirs, files) =
                IF output_dir \notin dirs \/ indices = {} THEN 1
                ELSE 1 + SetMax(indices)

\* C20 witness: the session found scan_0001.png .. scan_0037.png and its
\* first scan is being written to scan_0038.png.
C20_Witness ==
    /\ cycles = 1
    /\ files = {Entry(FileName(<<"s", "c", "a", "n">>, i, "png"), TRUE) : i \in 1..37}
    /\ \E t \in Tasks :
          /\ pc[t] = "exec"
          /\ job[t].file = [dir |-> "./scans",
                            name |-> FileName(<<"s", "c", "a", "n">>, 38, "png")]

\* C21 as claimed: the file a scan in flight is writing to is never a file
\* that is already in its directory, also when the indices there have
\* reached 10000.
C21_NoFileNameReused ==
    \A t \in Tasks : pc[t] = "exec" =>
        ~\E g \in files : g.dir = job[t].file.dir /\ g.name = job[t].file.name

\* a step of a handler that calls _update_next_filename outside a scan
\* cycle: an edit of the prefix or of the output directory, or a change to
\* the scan panel
PreviewStep ==
    \/ \E v \in PrefixInputs, sv \in EditSaveOutcomes : EditPrefix(v, sv)
    \/ \E v \in DirInputs, sv \in EditSaveOutcomes : EditOutputDir(v, sv)
    \/ ConfirmDevice
    \/ \E l \in ScannerLists, c \in Devices \cup {BLANK} : RefreshListed(l, c)

\* C22: a step that computes the preview outside a scan cycle leaves the
\* directories and the files as they are, and a preview for a directory
\* that does not exist names index 1; directories appear only in a step that
\* enters a scan cycle, files only in a step that ends a call of the scan
\* program.
C22_PreviewLeavesFileSystem ==
    [][/\ PreviewStep =>
              /\ dirs' = dirs
              /\ files' = files
              /\ (next_file' # << >> /\ next_file'[1].dir \notin dirs') =>
                     next_file'[1].name =
                         FileName(sanitize_prefix(prefix_input'), 1, "png")
       /\ dirs' # dirs => cycles' = cycles + 1
       /\ files' # files => \E t \in Tasks : pc[t] = "exec"]_vars

\* C22 witness: after a scan into ./scans the operator typed a directory
\* that does not exist; the preview names index 1 there and only ./scans
\* exists.
C22_Witness ==
    /\ next_file = <<[dir |-> "/proc/scans", name |-> FileName(<<"s", "c", "a", "n">>, 1, "png")]>>
    /\ output_dir_input = "/proc/scans"
    /\ dirs = {"./scans"}
    /\ files # {}

\* C23: sanitizing a sanitized prefix changes nothing, whatever text is in
\* #prefix_input: any text found in the configuration file, or what a scan
\* cycle wrote back there.
C23_SanitizeIdempotent ==
    sanitize_prefix(sanitize_prefix(prefix_input)) = sanitize_prefix(prefix_input)

\* C23 witness: a scan is in flight under the prefix a_a, which can only
\* have been made of a text with a blank, a path separator or a disallowed
\* character in the middle.
C23_Witness ==
    /\ prefix_input = <<"a", "_", "a">>
    /\ \E t \in Tasks :
          /\ pc[t] = "exec"
          /\ job[t].file.name = FileName(<<"a", "_", "a">>, 1, "png")

\* C24 as claimed: whatever is at CONFIG_PATH, the session starts without
\* an error.
C24_StartUpNeverFails == raised # "AttributeError"

\* C25 as claimed: when _save_settings fails at the end of a successful
\* scan, be it on the directory or on the file, no exception leaves
\* action_scan and the queue slot is free afterwards.
C25_SaveFailureSwallowed ==
    [][\A t \in Tasks, sv \in AllSaveOutcomes \ {"saved"} :
          (pc[t] = "exec" /\ \E size \in AllSizes, d \in Durations,
                                h \in AllHistoryOutcomes :
                                 SucceededStep(t, size, d, h, sv)) =>
              /\ raised' = None
              /\ ~_scan_queued']_vars

\* C26: after a successful scan, a history append that failed leaves the
\* statistics updated, the settings saved and no exception behind; and
\* whatever the save of the settings met, a history append that did not
\* fail leaves the record of that scan as the last of the history.
C26_HistoryAndSaveIndependent ==
    [][\A t \in Tasks, size \in AllSizes, d \in Durations,
          h \in AllHistoryOutcomes, sv \in AllSaveOutcomes :
          (pc[t] = "exec" /\ SucceededStep(t, size, d, h, sv)) =>
              /\ (~h /\ sv = "saved") =>
                     /\ _session_scans' = _session_scans + 1
                     /\ _session_total_seconds' = _session_total_seconds + d
                     /\ config' = <<SettingsData(scanner_select', prefix_input',
                                                 output_dir_input', extra_input')>>
                     /\ raised' = None
              /\ (h /\ sv # "saved") =>
                     /\ Len(history') = Len(history) + 1
                     /\ history'[Len(history')].file = job[t].file]_vars

\* C26 witness: one scan succeeded, its history append failed, and the
\* settings are saved and the statistics count it.
C26_Witness ==
    /\ cycles = 1
    /\ _session_scans = 1
    /\ history = << >>
    /\ config = <<SettingsData(scanner_select, prefix_input, output_dir_input,
                               extra_input)>>
    /\ raised = None
    /\ ~_scan_lock

\* C27: when every call of the scan program ends and the requests are
\* finitely many, a lock that is held is released in the end; and the
\* backlog is one flag, set or not.
C27_LoopTerminates ==
    /\ _scan_lock ~> ~_scan_lock
    /\ [](_scan_queued \in BOOLEAN)

\* C27 witness: a scan was queued behind the first one, both have run and
\* the lock is free again.
C27_Witness ==
    /\ cycles = 2
    /\ _session_scans = 2
    /\ scan_notice = "Queued one scan."
    /\ ~_scan_queued
    /\ ~_scan_lock

\* C28 as claimed: a job that has reached the scan program has a prefix
\* that is not empty (its file name is longer than "_0001.png") and a
\* resolution of 0 or more.
C28_JobPrefixAndResolution ==
    \A t \in Tasks : pc[t] = "exec" =>
        /\ Len(job[t].file.name) > 9
        /\ job[t].resolution >= 0

\* the record _save_settings would write now
CurrentSettings ==
    SettingsData(scanner_select, prefix_input, output_dir_input, extra_input)

\* a command that changes a setting completes, its write succeeding where it
\* makes one
SettingsCommand ==
    \/ \E d \in Devices : SelectDevice(d, "saved")
    \/ \E v \in PrefixInputs : EditPrefix(v, "saved")
    \/ \E v \in ResolutionInputs : EditResolution(v, "saved")
    \/ action_toggle_gray("saved")
    \/ action_toggle_auto_continue("saved")
    \/ action_toggle_advanced

\* C29 as claimed: once a command that changes a setting has completed, the
\* configuration file holds the current settings, the advanced flag
\* included.
C29_PersistedAfterEveryMutation ==
    [][SettingsCommand => config' = <<CurrentSettings'>>]_vars

\* C30 as claimed: the queued flag is set only while a scan cycle holds the
\* scan lock, also once a cycle has ended by an exception from the call of
\* the scan program or from saving the settings.
C30_QueuedOnlyWhileLocked == ~_scan_lock => ~_scan_queued

\* the extension _run_scan gives to the files of a format
ExtensionOf(fmt) == IF fmt = "jpeg" THEN "jpg" ELSE fmt

\* C31 as claimed: the record appended to the history for a successful scan
\* has the device, format, resolution, mode and source of the job that was
\* executed, and a format that agrees with the extension of its file, also
\* when the selection or the settings were changed during the scan.
C31_HistoryDescribesJob ==
    [][\A t \in Tasks :
          (/\ pc[t] = "exec"
           /\ Len(history') = Len(history) + 1
           /\ \E size \in Sizes, d \in Durations : SucceededStep(t, size, d, TRUE, "saved"))
          => LET record == history'[Len(history')]
                 ext == <<".">> \o Chars(ExtensionOf(record.format))
                 name == record.file.name
             IN  /\ record.device = job[t].device
                 /\ record.format = job[t].format
                 /\ safe_int(record.resolution, 300) = job[t].resolution
                 /\ record.mode = job[t].mode
                 /\ record.source = job[t].source
                 /\ SubSeq(name, Len(name) - Len(ext) + 1, Len(name)) = ext]_vars

\* C32 as claimed: a refresh that lists the device the operator has
\* selected, the select widget keeping its value over the new options,
\* leaves that device selected; it does not go back to the last_device of
\* the settings loaded at the start.
C32_RefreshKeepsSelection ==
    [][\A l \in {TwoScanners, <<TwoScanners[2]>>} :
          (/\ active_device # None
           /\ \E i \in 1..Len(l) : l[i] = scanner_select
           /\ RefreshListed(l, scanner_select))
          => scanner_select' = scanner_select]_vars

====
